---- MODULE Spec2Model ----
(***************************************************************************)
(* Model of main() of opendlv-video-h264-encoder.cpp: the program attaches *)
(* to a shared memory area holding an I420 frame, creates and configures   *)
(* an openh264 encoder, and then loops: wait for a frame, lock the area,   *)
(* encode, copy the layers of the bitstream into h264Buffer, unlock, and   *)
(* send the result to the OD4 session.                                     *)
(*                                                                         *)
(* The frame producer, the life time of the shared memory area and of the  *)
(* OD4 session are the environment of main(); they run interleaved with    *)
(* the steps of main().                                                    *)
(***************************************************************************)
EXTENDS Integers, Sequences, FiniteSets, TLC

\* ------------------------------------------------------------------ bounds
\* Largest frame dimension tried for --width and --height.
MaxDim == 4
\* Largest number of bitstream bytes the engine returns for one frame.
MaxTotal == 5

\* -------------------------------------------------------- program constants
\* h264Buffer.resize(WIDTH * HEIGHT, '0'): the fill character '0'.
FillChar == 48
\* int32_t retCode{1}
RetCodeInitial == 1
\* retCode = 0 after the loop and the shutdown of the encoder
RetCodeSuccess == 0
\* What a read of a byte outside h264Buffer yields when it is not the byte
\* that was written there: a value that is no byte of a bitstream (whose
\* bytes are 1..MaxTotal) and not the fill character.
Garbage == MaxTotal + 1

VARIABLES
    pc,                         \* position of main()
    WIDTH, HEIGHT,              \* --width, --height
    retCode,                    \* value main() returns
    valid,                      \* sharedMemory->valid()
    isRunning,                  \* od4.isRunning()
    mutex,                      \* owner of the lock of the shared memory
    notified,                   \* the producer signalled a frame
    encoder,                    \* state of the ISVCEncoder instance
    h264Buffer,                 \* the std::vector<char> of WIDTH*HEIGHT chars
    h264DataForImageReading,    \* the std::string handed to the sink
    sourceFrame,                \* SSourcePicture handed to EncodeFrame
    frameInfo,                  \* SFrameBSInfo and result of EncodeFrame
    totalSize,                  \* int totalSize of the assembly
    ir,                         \* the opendlv::proxy::ImageReading sent
    iter,                       \* what happened in the current iteration
    hist                        \* what happened since the start of main()

vars == <<pc, WIDTH, HEIGHT, retCode, valid, isRunning, mutex, notified,
          encoder, h264Buffer, h264DataForImageReading, sourceFrame, frameInfo,
          totalSize, ir, iter, hist>>

\* The configuration, the environment's variables, the program's data.
config == <<WIDTH, HEIGHT>>
env    == <<valid, isRunning, mutex, notified>>
data   == <<h264Buffer, h264DataForImageReading, sourceFrame, frameInfo,
            totalSize, ir>>

\* ------------------------------------------------------------- inputs
\* The frame dimensions: even, as the I420 layout requires.
EvenDims == {d \in 1..MaxDim : d % 2 = 0}

\* ---------------------------------------------------------- sequences
RECURSIVE SumSeq(_)
SumSeq(s) == IF s = <<>> THEN 0 ELSE Head(s) + SumSeq(Tail(s))

RECURSIVE Flatten(_)
Flatten(ss) == IF ss = <<>> THEN <<>> ELSE Head(ss) \o Flatten(Tail(ss))

Min(a, b) == IF a < b THEN a ELSE b

\* ------------------------------------------------- results of the engine
\* All sequences of positive NAL lengths that sum up to n.
RECURSIVE Compositions(_)
Compositions(n) ==
    IF n = 0 THEN {<<>>}
    ELSE UNION {{<<k>> \o c : c \in Compositions(n - k)} : k \in 1..n}

\* All sequences of layers (a layer: a non-empty sequence of NAL lengths)
\* with n bytes in total.
RECURSIVE LayerLengths(_)
LayerLengths(n) ==
    IF n = 0 THEN {<<>>}
    ELSE UNION {{<<l>> \o r : l \in Compositions(k), r \in LayerLengths(n - k)}
                : k \in 1..n}

\* The bitstream of a frame: the byte at position k of the bitstream is k, so
\* that every byte of every NAL is told from every other one.
RECURSIVE MkLayers(_, _)
MkLayers(lens, off) ==
    IF lens = <<>> THEN <<>>
    ELSE LET size == SumSeq(Head(lens))
         IN  <<[iNalCount        |-> Len(Head(lens)),
                pNalLengthInByte |-> Head(lens),
                pBsBuf           |-> [j \in 1..size |-> off + j]]>>
             \o MkLayers(Tail(lens), off + size)

LayerInfos == {MkLayers(lens, 0) : lens \in UNION {LayerLengths(n) : n \in 0..MaxTotal}}

\* SFrameBSInfo after memset(&frameInfo, 0, ...): no layers.
NoFrame == [result |-> "none", eFrameType |-> "invalid", sLayerInfo |-> <<>>]

\* What EncodeFrame may return: an error (frameInfo as the engine left it),
\* a skipped frame, or an IDR/P frame with its layers.
EncodeResults ==
    {[result |-> "error", eFrameType |-> "invalid", sLayerInfo |-> <<>>]}
    \cup {[result |-> "success", eFrameType |-> t, sLayerInfo |-> ls]
          : t \in {"skip", "frame"}, ls \in LayerInfos}

\* SSourcePicture after memset(&sourceFrame, 0, ...). pData holds the offsets
\* of the three planes from sharedMemory->data().
NoPicture == [iColorFormat |-> "none", iPicWidth |-> 0, iPicHeight |-> 0,
              iStride |-> <<0, 0, 0>>, pData |-> <<0, 0, 0>>]

\* ------------------------------------------------------------ history
NewIter == [waits |-> 0, locks |-> 0, unlocks |-> 0, encodes |-> 0,
            assembled |-> FALSE, sends |-> 0, ub |-> FALSE,
            running |-> FALSE, order |-> <<>>]

NewHist == [fatal |-> "none", waited |-> FALSE, locked |-> FALSE,
            encoded |-> FALSE, sent |-> FALSE,
            uninits |-> 0, destroys |-> 0, encodeAfterUninit |-> FALSE,
            encodesAfterInvalid |-> 0, exitCause |-> "none"]

\* No ImageReading: the local ir exists only inside the if of line 165.
NoImage == [format |-> "", width |-> 0, height |-> 0, data |-> <<>>]

Init ==
    /\ pc = "attach"
    /\ WIDTH \in EvenDims
    /\ HEIGHT \in EvenDims
    /\ retCode = RetCodeInitial
    /\ valid = FALSE
    /\ isRunning = FALSE
    /\ mutex = "none"
    /\ notified = FALSE
    /\ encoder = "null"
    /\ h264Buffer = <<>>
    /\ h264DataForImageReading = <<>>
    /\ sourceFrame = NoPicture
    /\ frameInfo = NoFrame
    /\ totalSize = 0
    /\ ir = NoImage
    /\ iter = NewIter
    /\ hist = NewHist

\* ------------------------------------------------------------- startup
\* Lines 53-54 and 178-182: attach to the shared memory; when it is not
\* valid, main() returns retCode, which is still 1.
Attach ==
    /\ pc = "attach"
    /\ \E ok \in BOOLEAN :
          /\ valid' = ok
          /\ IF ok
             THEN pc' = "create" /\ hist' = hist
             ELSE pc' = "done" /\ hist' = [hist EXCEPT !.fatal = "attach"]
    /\ UNCHANGED <<config, retCode, isRunning, mutex, notified, encoder, data, iter>>

\* Lines 57-61: WelsCreateSVCEncoder; on failure return retCode.
CreateEncoder ==
    /\ pc = "create"
    /\ \E ok \in BOOLEAN :
          IF ok
          THEN pc' = "init" /\ encoder' = "created" /\ hist' = hist
          ELSE pc' = "done" /\ encoder' = encoder
               /\ hist' = [hist EXCEPT !.fatal = "create"]
    /\ UNCHANGED <<config, retCode, env, data, iter>>

\* Faulty variant of InitializeExt: its failure is noticed but main() goes on.
InitializeExtGoesOn ==
    /\ pc = "init"
    /\ \E ok \in BOOLEAN :
          /\ pc' = "alloc"
          /\ encoder' = IF ok THEN "initialized" ELSE encoder
          /\ hist' = IF ok THEN hist ELSE [hist EXCEPT !.fatal = "init"]
    /\ UNCHANGED <<config, retCode, env, data, iter>>

\* Lines 63-105: set the parameters, InitializeExt; on failure return retCode
\* (the encoder is not destroyed on this path).
InitializeExt ==
    /\ pc = "init"
    /\ \E ok \in BOOLEAN :
          IF ok
          THEN pc' = "alloc" /\ encoder' = "initialized" /\ hist' = hist
          ELSE pc' = "done" /\ encoder' = encoder
               /\ hist' = [hist EXCEPT !.fatal = "init"]
    /\ UNCHANGED <<config, retCode, env, data, iter>>

\* Faulty variant of Capacity: the byte count of the raw I420 frame.
CapacityRawFrame(w, h) == (w * h * 3) \div 2

\* Line 109: the number of chars of h264Buffer, WIDTH * HEIGHT (uint32_t; the
\* dimensions tried are far below the ones whose product wraps around).
Capacity(w, h) == w * h

\* Lines 107-113: allocate h264Buffer, the empty string, and open the OD4
\* session (which may or may not come up running).
Allocate ==
    /\ pc = "alloc"
    /\ h264Buffer' = [i \in 1..Capacity(WIDTH, HEIGHT) |-> FillChar]
    /\ h264DataForImageReading' = <<>>
    /\ isRunning' \in BOOLEAN
    /\ pc' = "loop"
    /\ UNCHANGED <<config, retCode, valid, mutex, notified, encoder, sourceFrame,
                   frameInfo, totalSize, ir, iter, hist>>

\* ---------------------------------------------------------------- loop
\* Faulty variant of LoopCondition: od4.isRunning() is not consulted.
LoopConditionValidOnly(v, r) == v

\* Faulty variant of LoopCondition: sharedMemory->valid() is not consulted.
LoopConditionRunningOnly(v, r) == r

\* Faulty variant of LoopCondition: || in the place of &&.
LoopConditionEither(v, r) == v \/ r

\* Line 115: the loop condition, from sharedMemory->valid() and
\* od4.isRunning().
LoopCondition(v, r) == v /\ r

\* Line 115: the loop condition is evaluated. The locals of the previous
\* iteration (frameInfo, totalSize, ir) are gone.

LoopCheck ==
    /\ pc = "loop"
    /\ IF LoopCondition(valid, isRunning)
       THEN pc' = "wait" /\ hist' = hist
       ELSE pc' = "uninit"
            /\ hist' = [hist EXCEPT !.exitCause =
                            IF ~valid THEN "invalid" ELSE "sink"]
    /\ iter' = [NewIter EXCEPT !.running = isRunning]
    /\ sourceFrame' = NoPicture
    /\ frameInfo' = NoFrame
    /\ totalSize' = 0
    /\ ir' = NoImage
    /\ UNCHANGED <<config, retCode, env, encoder, h264Buffer,
                   h264DataForImageReading>>

\* Line 117: sharedMemory->wait() is entered; it blocks until the producer
\* signals a frame.
WaitEnter ==
    /\ pc = "wait"
    /\ pc' = "waiting"
    /\ notified' = FALSE
    /\ UNCHANGED <<config, retCode, valid, isRunning, mutex, encoder, data,
                   iter, hist>>

\* Line 117: sharedMemory->wait() returns: a frame was signalled or the area
\* became invalid.
WaitReturn ==
    /\ pc = "waiting"
    /\ notified \/ ~valid
    /\ pc' = "clear"
    /\ iter' = [iter EXCEPT !.waits = @ + 1, !.order = Append(@, "wait")]
    /\ hist' = [hist EXCEPT !.waited = TRUE]
    /\ UNCHANGED <<config, retCode, env, encoder, data>>

\* Faulty variant of Clear: the string keeps the data of the last iteration.
ClearNothing ==
    /\ pc = "clear"
    /\ pc' = "lock"
    /\ UNCHANGED <<config, retCode, env, encoder, data, iter, hist>>

\* Line 119: h264DataForImageReading.clear()
Clear ==
    /\ pc = "clear"
    /\ h264DataForImageReading' = <<>>
    /\ pc' = "lock"
    /\ UNCHANGED <<config, retCode, env, encoder, h264Buffer, sourceFrame,
                   frameInfo, totalSize, ir, iter, hist>>

\* Faulty variant of Lock: main() goes on without taking the lock.
LockNoAcquire ==
    /\ pc = "lock"
    /\ pc' = "encode"
    /\ iter' = [iter EXCEPT !.locks = @ + 1, !.order = Append(@, "lock")]
    /\ hist' = [hist EXCEPT !.locked = TRUE]
    /\ UNCHANGED <<config, retCode, env, encoder, data>>

\* Line 120: sharedMemory->lock(); blocks while the producer holds the lock.
Lock ==
    /\ pc = "lock"
    /\ mutex = "none"
    /\ mutex' = "core"
    /\ pc' = "encode"
    /\ iter' = [iter EXCEPT !.locks = @ + 1, !.order = Append(@, "lock")]
    /\ hist' = [hist EXCEPT !.locked = TRUE]
    /\ UNCHANGED <<config, retCode, valid, isRunning, notified, encoder, data>>

\* Faulty variant of SourceFrame: the V plane is put half a luma plane (not
\* a quarter) behind the U plane.
SourceFrameHalf(w, h) ==
    [iColorFormat |-> "videoFormatI420", iPicWidth |-> w, iPicHeight |-> h,
     iStride |-> <<w, w \div 2, w \div 2>>,
     pData   |-> <<0, w * h, w * h + ((w * h) \div 2)>>]

\* Lines 125-137: the source picture; >> 2 of an unsigned value is \div 4.
SourceFrame(w, h) ==
    [iColorFormat |-> "videoFormatI420", iPicWidth |-> w, iPicHeight |-> h,
     iStride |-> <<w, w \div 2, w \div 2>>,
     pData   |-> <<0, w * h, w * h + ((w * h) \div 4)>>]

\* Lines 122-139: set up sourceFrame and call encoder->EncodeFrame.
EncodeCall ==
    /\ pc = "encode"
    /\ sourceFrame' = SourceFrame(WIDTH, HEIGHT)
    /\ pc' = "encoding"
    /\ iter' = [iter EXCEPT !.encodes = @ + 1, !.order = Append(@, "encode")]
    /\ hist' = [hist EXCEPT
                  !.encoded = TRUE,
                  !.encodeAfterUninit = @ \/ hist.uninits > 0,
                  !.encodesAfterInvalid = IF valid THEN @ ELSE Min(@ + 1, 2)]
    /\ UNCHANGED <<config, retCode, env, encoder, h264Buffer,
                   h264DataForImageReading, frameInfo, totalSize, ir>>

\* Faulty variant of EncodeReturn: after an error the frame is encoded again.
EncodeReturnRetries ==
    /\ pc = "encoding"
    /\ frameInfo' \in EncodeResults
    /\ pc' = IF frameInfo'.result = "error" THEN "encode" ELSE "result"
    /\ UNCHANGED <<config, retCode, env, encoder, h264Buffer,
                   h264DataForImageReading, sourceFrame, totalSize, ir, iter, hist>>

\* Line 139: EncodeFrame returns its result and fills frameInfo.
EncodeReturn ==
    /\ pc = "encoding"
    /\ frameInfo' \in EncodeResults
    /\ pc' = "result"
    /\ UNCHANGED <<config, retCode, env, encoder, h264Buffer,
                   h264DataForImageReading, sourceFrame, totalSize, ir, iter, hist>>

\* ------------------------------------------------------------ assembly
\* Lines 147-150: the size of a layer, the sum of the lengths of its NALs.
RECURSIVE SizeOfLayer(_, _)
SizeOfLayer(layer, nal) ==
    IF nal > layer.iNalCount THEN 0
    ELSE layer.pNalLengthInByte[nal] + SizeOfLayer(layer, nal + 1)

\* memcpy(&mem[at], src, n): mem is the memory that starts at &h264Buffer[0];
\* it reaches beyond the end of h264Buffer when at + n exceeds its size.
Memcpy(mem, at, src, n) ==
    LET top == IF at + n > Len(mem) THEN at + n ELSE Len(mem)
    IN  [i \in 1..top |-> IF at < i /\ i <= at + n THEN src[i - at] ELSE mem[i]]

\* Lines 145-153: the loop over the layers, from layer index `layer` on.
RECURSIVE CopyLayers(_, _, _, _)
CopyLayers(sLayerInfo, layer, mem, total) ==
    IF layer > Len(sLayerInfo) THEN [mem |-> mem, totalSize |-> total]
    ELSE LET sizeOfLayer == SizeOfLayer(sLayerInfo[layer], 1)
         IN  CopyLayers(sLayerInfo, layer + 1,
                        Memcpy(mem, total, sLayerInfo[layer].pBsBuf, sizeOfLayer),
                        total + sizeOfLayer)

\* Line 155: std::string(&h264Buffer[0], totalSize), read from the memory as
\* the copies left it. A byte outside h264Buffer (index above cap) is read as
\* written when oob is "written" and as Garbage otherwise.
ReadString(mem, total, cap, oob) ==
    [i \in 1..total |-> IF i <= cap \/ oob = "written" THEN mem[i] ELSE Garbage]

\* What a copy beyond the end of h264Buffer (undefined behaviour) may lead to.
OutOfBoundsOutcomes == {"written", "garbage", "crash"}

\* Faulty variant of IsFrame: a skipped frame is assembled, too.
IsFrameSkipToo(result, eFrameType) == result = "success"

\* Faulty variant of IsFrame: the result of EncodeFrame is not looked at.
IsFrameErrorToo(result, eFrameType) == eFrameType # "skip"

\* Lines 140-141: the frame is assembled when EncodeFrame succeeded and the
\* frame is not a skipped one.
IsFrame(result, eFrameType) == result = "success" /\ eFrameType # "skip"

\* Lines 140-161: the three outcomes of EncodeFrame. An error and a skipped
\* frame are logged; any other frame is assembled in h264Buffer and, when it
\* has bytes, stored in h264DataForImageReading.
HandleResult ==
    /\ pc = "result"
    /\ IF IsFrame(frameInfo.result, frameInfo.eFrameType)
       THEN LET cap    == Len(h264Buffer)
                copied == CopyLayers(frameInfo.sLayerInfo, 1, h264Buffer, 0)
                ub     == Len(copied.mem) > cap
            IN  \E oob \in (IF ub THEN OutOfBoundsOutcomes ELSE {"written"}) :
                   /\ h264Buffer' = SubSeq(copied.mem, 1, cap)
                   /\ totalSize' = copied.totalSize
                   /\ iter' = [iter EXCEPT !.assembled = TRUE, !.ub = ub,
                                            !.order = Append(@, "assemble")]
                   /\ IF oob = "crash"
                      THEN /\ pc' = "crashed"
                           /\ UNCHANGED h264DataForImageReading
                      ELSE /\ pc' = "unlock"
                           /\ h264DataForImageReading' =
                                IF 0 < copied.totalSize
                                THEN ReadString(copied.mem, copied.totalSize, cap, oob)
                                ELSE h264DataForImageReading
       ELSE /\ pc' = "unlock"
            /\ UNCHANGED <<h264Buffer, h264DataForImageReading, totalSize, iter>>
    /\ UNCHANGED <<config, retCode, env, encoder, sourceFrame, frameInfo, ir, hist>>

\* Faulty variant of Unlock: the unlock() is left out.
UnlockLeftOut ==
    /\ pc = "unlock"
    /\ pc' = "check"
    /\ UNCHANGED <<config, retCode, env, encoder, data, iter, hist>>

\* Faulty variant of Unlock: after an error of EncodeFrame the lock is kept.
UnlockNotOnError ==
    /\ pc = "unlock"
    /\ pc' = "check"
    /\ IF frameInfo.result = "error"
       THEN UNCHANGED <<mutex, iter>>
       ELSE /\ mutex' = "none"
            /\ iter' = [iter EXCEPT !.unlocks = @ + 1, !.order = Append(@, "unlock")]
    /\ UNCHANGED <<config, retCode, valid, isRunning, notified, encoder, data, hist>>

\* Line 163: sharedMemory->unlock()
Unlock ==
    /\ pc = "unlock"
    /\ mutex' = "none"
    /\ pc' = "check"
    /\ iter' = [iter EXCEPT !.unlocks = @ + 1, !.order = Append(@, "unlock")]
    /\ UNCHANGED <<config, retCode, valid, isRunning, notified, encoder, data, hist>>

\* Line 165: is there something to send?
CheckData ==
    /\ pc = "check"
    /\ pc' = IF h264DataForImageReading # <<>> THEN "send" ELSE "loop"
    /\ UNCHANGED <<config, retCode, env, encoder, data, iter, hist>>

\* Lines 166-168: build the ImageReading and hand it to od4.send.
Send ==
    /\ pc = "send"
    /\ ir' = [format |-> "h264", width |-> WIDTH, height |-> HEIGHT,
              data |-> h264DataForImageReading]
    /\ iter' = [iter EXCEPT !.sends = @ + 1, !.order = Append(@, "publish")]
    /\ hist' = [hist EXCEPT !.sent = TRUE]
    /\ pc' = "loop"
    /\ UNCHANGED <<config, retCode, env, encoder, h264Buffer,
                   h264DataForImageReading, sourceFrame, frameInfo, totalSize>>

\* ------------------------------------------------------------ shutdown
\* Faulty variant of Uninitialize: the encoder is destroyed without it.
UninitializeLeftOut ==
    /\ pc = "uninit"
    /\ pc' = IF encoder # "null" THEN "destroy" ELSE "return"
    /\ UNCHANGED <<config, retCode, env, encoder, data, iter, hist>>

\* Lines 172-173: encoder->Uninitialize()
Uninitialize ==
    /\ pc = "uninit"
    /\ IF encoder # "null"
       THEN /\ encoder' = "uninitialized"
            /\ hist' = [hist EXCEPT !.uninits = @ + 1]
            /\ pc' = "destroy"
       ELSE /\ pc' = "return"
            /\ UNCHANGED <<encoder, hist>>
    /\ UNCHANGED <<config, retCode, env, data, iter>>

\* Line 174: WelsDestroySVCEncoder(encoder)
Destroy ==
    /\ pc = "destroy"
    /\ encoder' = "destroyed"
    /\ hist' = [hist EXCEPT !.destroys = @ + 1]
    /\ pc' = "return"
    /\ UNCHANGED <<config, retCode, env, data, iter>>

\* Lines 176 and 182: retCode = 0; return retCode.
Return ==
    /\ pc = "return"
    /\ retCode' = RetCodeSuccess
    /\ pc' = "done"
    /\ UNCHANGED <<config, env, encoder, data, iter, hist>>

\* --------------------------------------------------------- environment
\* main() is running: between the attach and its return (or its crash).
Running == pc \notin {"attach", "done", "crashed"}

\* The producer takes the lock of the shared memory to write the next frame.
ProducerLock ==
    /\ Running /\ valid
    /\ mutex = "none"
    /\ mutex' = "producer"
    /\ UNCHANGED <<pc, config, retCode, valid, isRunning, notified, encoder,
                   data, iter, hist>>

\* The producer has written the frame: it unlocks and notifies the waiters.
ProducerUnlock ==
    /\ Running
    /\ mutex = "producer"
    /\ mutex' = "none"
    /\ notified' = TRUE
    /\ UNCHANGED <<pc, config, retCode, valid, isRunning, encoder, data, iter, hist>>

\* The producer detaches or the area becomes unusable: valid() is false from
\* now on.
Detach ==
    /\ Running /\ valid
    /\ valid' = FALSE
    /\ UNCHANGED <<pc, config, retCode, isRunning, mutex, notified, encoder,
                   data, iter, hist>>

\* The OD4 session stops: isRunning() is false from now on.
SessionStops ==
    /\ Running /\ isRunning
    /\ isRunning' = FALSE
    /\ UNCHANGED <<pc, config, retCode, valid, mutex, notified, encoder,
                   data, iter, hist>>

Next ==
    \/ Attach \/ CreateEncoder \/ InitializeExt \/ Allocate
    \/ LoopCheck \/ WaitEnter \/ WaitReturn \/ Clear \/ Lock
    \/ EncodeCall \/ EncodeReturn \/ HandleResult \/ Unlock
    \/ CheckData \/ Send
    \/ Uninitialize \/ Destroy \/ Return
    \/ ProducerLock \/ ProducerUnlock \/ Detach \/ SessionStops

Spec == Init /\ [][Next]_vars

\* Line 139, for the progress of the loop: EncodeFrame returns an error, or
\* a frame of at most one layer with one NAL (of 0..MaxTotal bytes, so that
\* the frame may still exceed h264Buffer). How the bytes of a frame are
\* spread over layers and NALs plays no part in the progress of the loop.
EncodeReturnOneNal ==
    /\ EncodeReturn
    /\ Len(frameInfo'.sLayerInfo) <= 1
    /\ \A l \in 1..Len(frameInfo'.sLayerInfo) : frameInfo'.sLayerInfo[l].iNalCount <= 1

\* The steps of main() itself, the single thread of the program, with the
\* frames of EncodeReturnOneNal.
Core ==
    \/ Attach \/ CreateEncoder \/ InitializeExt \/ Allocate
    \/ LoopCheck \/ WaitEnter \/ WaitReturn \/ Clear \/ Lock
    \/ EncodeCall \/ EncodeReturnOneNal \/ HandleResult \/ Unlock
    \/ CheckData \/ Send
    \/ Uninitialize \/ Destroy \/ Return

\* The steps of the producer, the shared memory area and the OD4 session.
Environment == ProducerLock \/ ProducerUnlock \/ Detach \/ SessionStops

\* main() keeps running whenever it is not blocked (in wait() or lock()); a
\* producer that holds the lock releases it, and main() blocked in lock()
\* gets the lock when it is free again and again. Nothing makes the producer
\* write another frame, the area go away or the session stop.
FairSpec ==
    /\ Init /\ [][Core \/ Environment]_vars
    /\ WF_vars(Core) /\ WF_vars(ProducerUnlock) /\ SF_vars(Lock)

\* ================================================================ claims
\* Positions of main() inside the loop body, at its head, and behind it.
AtLoopHead == pc \in {"loop", "wait", "waiting"}
AfterLoop  == pc \in {"uninit", "destroy", "return"}
             \/ (pc = "done" /\ hist.exitCause # "none")

\* C1: every call of EncodeFrame starts and completes while main() holds the
\* lock it took in the same iteration; the producer, which writes only while
\* it holds the lock, never writes during an encode call.
C1_EncodeInsideLock ==
    pc \in {"encode", "encoding", "result"} =>
        /\ mutex = "core"
        /\ iter.locks = 1
        /\ iter.unlocks = 0

\* C1 witness: an encode call is in progress while the producer is attached
\* and has written a frame before.
C1_Witness == pc = "encoding" /\ valid /\ notified /\ mutex = "core"

\* C2: every lock() is followed in the same iteration, before the next wait()
\* and before the loop exit, by exactly one unlock(), whatever EncodeFrame
\* returned; the lock is not held at the loop head nor after the loop.
C2_LockUnlockPaired ==
    /\ iter.locks <= 1
    /\ iter.unlocks <= iter.locks
    /\ pc \in {"check", "send"} => iter.locks = 1 /\ iter.unlocks = 1
    /\ (AtLoopHead \/ AfterLoop \/ pc \in {"check", "send"}) =>
          /\ mutex # "core"
          /\ iter.unlocks = iter.locks

\* C2 witness: an iteration whose encode call failed is over, with one lock
\* and one unlock.
C2_Witness ==
    pc = "loop" /\ frameInfo.result = "error" /\ iter.locks = 1 /\ iter.unlocks = 1

\* C3: in every iteration od4.send is called at most once, and only when the
\* access unit assembled in that iteration has bytes (totalSize > 0).
C3_SendAtMostOnceNonEmpty ==
    /\ iter.sends <= 1
    /\ (pc = "send" \/ iter.sends = 1) =>
          /\ iter.assembled
          /\ totalSize > 0
          /\ h264DataForImageReading # <<>>

\* C3 witness: an iteration that sent its access unit is over.
C3_Witness == pc = "loop" /\ iter.sends = 1 /\ totalSize > 0

\* C4 as stated: whenever main() calls od4.send, the session is running.
C4_SendOnlyWhileRunning == pc = "send" => isRunning

\* C4 (amended): od4.send is called only in an iteration whose loop condition
\* found the session running; the session may have stopped since.
C4_SendOnlyIfRunningAtLoopHead == (pc = "send" \/ iter.sends > 0) => iter.running

\* C4 witness: main() is about to call od4.send although the session stopped
\* after the loop condition was evaluated.
C4_Witness == pc = "send" /\ ~isRunning /\ iter.running

\* C5 as stated: once valid() is false, no encode call is made any more.
C5_NoEncodeAfterInvalid == hist.encodesAfterInvalid = 0

\* C5 (amended): the loop ends at the first evaluation of its condition after
\* valid() turned false; until then at most one encode call is made, the one
\* of the iteration that had passed the condition already.
C5_AtMostOneEncodeAfterInvalid ==
    /\ hist.encodesAfterInvalid <= 1
    /\ (~valid /\ pc \in {"wait", "waiting"}) => hist.encodesAfterInvalid = 0
    /\ hist.exitCause = "invalid" => ~valid /\ AfterLoop

\* C5 witness: valid() turned false before the encode call of the last
\* iteration, and the loop has ended.
C5_Witness ==
    hist.encodesAfterInvalid = 1 /\ hist.exitCause = "invalid" /\ pc = "done"

\* C6: when the frame of an iteration is a skipped one, the access unit of
\* the iteration is empty and od4.send is not called in the iteration.
C6_SkipNotPublished ==
    (frameInfo.result = "success" /\ frameInfo.eFrameType = "skip") =>
        /\ ~iter.assembled
        /\ totalSize = 0
        /\ h264DataForImageReading = <<>>
        /\ pc # "send"
        /\ iter.sends = 0

\* C6 witness: an iteration with a skipped frame is over; the engine left
\* layers in frameInfo, and an earlier iteration left data in h264Buffer.
C6_Witness ==
    /\ pc = "loop"
    /\ frameInfo.result = "success" /\ frameInfo.eFrameType = "skip"
    /\ frameInfo.sLayerInfo # <<>>
    /\ h264Buffer[1] # FillChar

\* C7: when EncodeFrame returns an error, main() goes on to the next
\* evaluation of the loop condition, without assembling an access unit and
\* without calling od4.send; the loop ends only when its condition is false.
C7_ErrorDropsFrame ==
    /\ frameInfo.result = "error" =>
          /\ pc \in {"result", "unlock", "check", "loop"}
          /\ ~iter.assembled
          /\ totalSize = 0
          /\ h264DataForImageReading = <<>>
          /\ iter.sends = 0
    /\ AfterLoop => hist.exitCause \in {"invalid", "sink"}
    /\ (hist.exitCause # "none") => AfterLoop

\* C7 witness: the iteration of a failed encode call is over and the loop
\* condition, evaluated next, is true: the loop goes on.
C7_Witness ==
    pc = "loop" /\ frameInfo.result = "error" /\ valid /\ isRunning

\* The NAL payloads of a layer, in the order of their index: NAL number nal
\* starts in pBsBuf where NAL number nal - 1 ends.
RECURSIVE NalsOf(_, _, _)
NalsOf(layer, nal, off) ==
    IF nal > layer.iNalCount THEN <<>>
    ELSE LET n == layer.pNalLengthInByte[nal]
         IN  <<SubSeq(layer.pBsBuf, off + 1, off + n)>> \o NalsOf(layer, nal + 1, off + n)

\* All NAL payloads of a frame: layer index order, NAL index order within.
OrderedNals(sLayerInfo) ==
    Flatten([l \in 1..Len(sLayerInfo) |-> NalsOf(sLayerInfo[l], 1, 0)])

\* The sum of all NAL lengths of a frame.
SumOfNalLengths(sLayerInfo) ==
    SumSeq([l \in 1..Len(sLayerInfo) |-> SumSeq(sLayerInfo[l].pNalLengthInByte)])

\* The iteration has assembled the frame of a successful, non-skip result.
Assembled ==
    /\ pc \in {"unlock", "check", "send", "loop"}
    /\ frameInfo.result = "success" /\ frameInfo.eFrameType # "skip"

\* C8 as stated: for every successful non-skip result the access unit has
\* the length of the sum of all NAL lengths and is, byte for byte, the NAL
\* payloads concatenated in layer order and NAL order.
C8_ConcatenationLaw ==
    Assembled =>
        /\ Len(h264DataForImageReading) = SumOfNalLengths(frameInfo.sLayerInfo)
        /\ h264DataForImageReading = Flatten(OrderedNals(frameInfo.sLayerInfo))

\* C8, for the results that fit into h264Buffer only.
C8_ConcatenationLawWhenItFits ==
    (Assembled /\ SumOfNalLengths(frameInfo.sLayerInfo) <= Capacity(WIDTH, HEIGHT)) =>
        /\ Len(h264DataForImageReading) = SumOfNalLengths(frameInfo.sLayerInfo)
        /\ h264DataForImageReading = Flatten(OrderedNals(frameInfo.sLayerInfo))

\* C9: when the attach, the creation of the encoder or InitializeExt fails,
\* main() returns a non-zero value without ever calling wait(), lock(),
\* EncodeFrame or od4.send.
C9_FatalBeforeLoop ==
    hist.fatal # "none" =>
        /\ pc = "done"
        /\ retCode # 0
        /\ ~hist.waited /\ ~hist.locked /\ ~hist.encoded /\ ~hist.sent
        /\ hist.exitCause = "none"

\* C9 witness: InitializeExt failed and main() has returned.
C9_Witness == hist.fatal = "init" /\ pc = "done" /\ encoder = "created"

\* C10: the encoder is shut down exactly once, after the loop, Uninitialize
\* first and WelsDestroySVCEncoder second, whether valid() or isRunning()
\* ended the loop; no encode call follows the Uninitialize.
C10_ShutdownOnce ==
    /\ hist.uninits <= 1
    /\ hist.destroys <= hist.uninits
    /\ ~hist.encodeAfterUninit
    /\ hist.uninits > 0 => AfterLoop /\ pc # "uninit"
    /\ pc = "destroy" => hist.uninits = 1 /\ hist.destroys = 0
    /\ (pc \in {"return", "done"} /\ hist.exitCause # "none") =>
          /\ hist.uninits = 1
          /\ hist.destroys = 1
          /\ encoder = "destroyed"

\* C10 witness: main() has returned after the session stopped while the
\* shared memory was still valid, and at least one frame was encoded.
C10_Witness ==
    /\ pc = "done" /\ hist.exitCause = "sink" /\ valid /\ hist.encoded
    /\ hist.uninits = 1 /\ hist.destroys = 1

\* Positions of main() inside the while loop, and the loop being over (or
\* the process gone after the out-of-bounds copy of line 151).
InLoop == pc \in {"loop", "wait", "waiting", "clear", "lock", "encode",
                  "encoding", "result", "unlock", "check", "send"}
LoopOver == AfterLoop \/ pc = "crashed"

\* C11 as stated: once valid() is false or the session is no longer running,
\* the loop eventually ends and the shutdown of the encoder is reached, also
\* when main() is blocked in wait() and no further frame is signalled.
C11_LoopEndsOnEitherCondition ==
    (InLoop /\ (~valid \/ ~isRunning)) ~> LoopOver

\* C11 (amended): once valid() is false the loop eventually ends; once the
\* session is no longer running the loop eventually ends unless main() is at
\* or in wait() with the area valid: there it stays until the producer
\* signals another frame or the area becomes invalid.
C11_LoopEndsUnlessBlockedInWait ==
    (InLoop /\ (\/ ~valid
                \/ ~isRunning /\ pc \notin {"wait", "waiting"}
                \/ ~isRunning /\ pc = "waiting" /\ notified)) ~> LoopOver

\* C11 witness: the session stopped while main() was blocked in wait(), the
\* producer signalled one more frame, and the loop ended on the session.
C11_Witness ==
    /\ pc = "uninit" /\ hist.exitCause = "sink" /\ valid
    /\ hist.encoded /\ ~iter.running

\* C12 as stated: in an iteration that publishes, the events come in the
\* order wait, lock, encode, assemble, publish, unlock: the access unit is
\* handed to od4.send before the lock is released.
C12_PublishBeforeUnlock ==
    /\ pc = "send" => mutex = "core" /\ iter.unlocks = 0
    /\ iter.sends = 1 =>
          SubSeq(iter.order, 1, 5) = <<"wait", "lock", "encode", "assemble", "publish">>

\* C12 (amended): in an iteration that publishes, the events come in the
\* order wait, lock, encode, assemble, unlock, publish: the lock is released
\* before the access unit is handed to od4.send.
C12_UnlockBeforePublish ==
    /\ pc = "send" =>
          /\ iter.order = <<"wait", "lock", "encode", "assemble", "unlock">>
          /\ mutex # "core"
    /\ iter.sends = 1 =>
          iter.order = <<"wait", "lock", "encode", "assemble", "unlock", "publish">>

\* C12 witness: an iteration has published, and the producer holds the lock
\* again already.
C12_Witness == pc = "loop" /\ iter.sends = 1 /\ mutex = "producer"

\* C13: for all even WIDTH and HEIGHT the picture handed to EncodeFrame has
\* the plane offsets 0, W*H and W*H + (W/2)*(H/2) and the strides W, W/2 and
\* W/2: the three planes tile the W*H*3/2 bytes of the frame, each plane
\* starting where the one before it ends.
C13_PlanesTileFrame ==
    pc \in {"encoding", "result"} =>
        LET W == WIDTH
            H == HEIGHT
            stride == sourceFrame.iStride
            plane  == sourceFrame.pData
        IN  /\ sourceFrame.iPicWidth = W /\ sourceFrame.iPicHeight = H
            /\ stride = <<W, W \div 2, W \div 2>>
            /\ plane = <<0, W * H, W * H + (W \div 2) * (H \div 2)>>
            /\ plane[2] = plane[1] + stride[1] * H
            /\ plane[3] = plane[2] + stride[2] * (H \div 2)
            /\ plane[3] + stride[3] * (H \div 2) = (W * H * 3) \div 2

\* C13 witness: an encode call is in progress for a frame that is not square.
C13_Witness == pc = "encoding" /\ WIDTH = 4 /\ HEIGHT = 2

\* h264Buffer exists: main() is past line 109.
Allocated == InLoop \/ LoopOver

\* C14 as stated: from its allocation to the end of the loop, h264Buffer has
\* the capacity of the raw frame, W*H*3/2 bytes.
C14_CapacityIsRawFrameSize ==
    Allocated => Len(h264Buffer) = (WIDTH * HEIGHT * 3) \div 2

\* C14 (amended): from its allocation to the end of the loop, h264Buffer has
\* the capacity WIDTH * HEIGHT it was given at line 109; no iteration changes
\* it.
C14_CapacityIsWidthTimesHeight ==
    Allocated => Len(h264Buffer) = WIDTH * HEIGHT

\* C14 witness: an iteration has copied a frame of more bytes than
\* h264Buffer holds, and the loop is over.
C14_Witness ==
    /\ pc = "uninit"
    /\ h264Buffer = [i \in 1..(WIDTH * HEIGHT) |-> i]
    /\ WIDTH = 2 /\ HEIGHT = 2

\* C15: at every copy of a layer (line 151), the running total plus the size
\* of the layer is at most the capacity of h264Buffer, whatever layers and
\* NAL lengths EncodeFrame returned.
C15_CopiesInsideBuffer ==
    (pc = "result" /\ IsFrame(frameInfo.result, frameInfo.eFrameType)) =>
        \A layer \in 1..Len(frameInfo.sLayerInfo) :
            SumOfNalLengths(SubSeq(frameInfo.sLayerInfo, 1, layer - 1))
              + SizeOfLayer(frameInfo.sLayerInfo[layer], 1) <= Len(h264Buffer)

\* C16: every return of wait() is followed by exactly one encode call before
\* the next wait() and before the end of the loop; after an error the frame
\* is not encoded again; no encode call starts while one is in progress.
C16_OneEncodePerWait ==
    /\ iter.waits <= 1
    /\ iter.encodes <= iter.waits
    /\ pc \in {"encoding", "result", "unlock", "check", "send"} => iter.encodes = 1
    /\ (pc = "loop" /\ iter.waits = 1) => iter.encodes = 1
    /\ frameInfo.result = "error" =>
          iter.encodes = 1 /\ pc \in {"result", "unlock", "check", "loop"}

\* C16 witness: the encode call of the iteration failed and the iteration is
\* about to end, with one wait() and one encode call.
C16_Witness ==
    pc = "check" /\ frameInfo.result = "error" /\ iter.waits = 1 /\ iter.encodes = 1

\* C17: the ImageReading of every od4.send has the format "h264", the
\* configured width and height, and as data the access unit assembled from
\* the result of the encode call of the same iteration; the string is empty
\* when the locked section of an iteration starts, so that the data of an
\* earlier iteration is never sent (again).
C17_PayloadOfSameIteration ==
    /\ pc \in {"lock", "encode", "encoding", "result"} => h264DataForImageReading = <<>>
    /\ iter.sends = 1 =>
          LET nals      == Flatten(OrderedNals(frameInfo.sLayerInfo))
              inBuffer  == Min(totalSize, Len(h264Buffer))
          IN  /\ ir.format = "h264"
              /\ ir.width = WIDTH /\ ir.height = HEIGHT
              /\ ir.data = h264DataForImageReading
              /\ iter.assembled
              /\ IsFrame(frameInfo.result, frameInfo.eFrameType)
              /\ Len(ir.data) = totalSize
              /\ totalSize = SumOfNalLengths(frameInfo.sLayerInfo)
              /\ SubSeq(ir.data, 1, inBuffer) = SubSeq(nals, 1, inBuffer)
              /\ ~iter.ub => ir.data = nals

\* C17 witness: an iteration sent its access unit of fewer bytes than an
\* earlier iteration had left in h264Buffer.
C17_Witness ==
    /\ pc = "loop" /\ iter.sends = 1 /\ ~iter.ub
    /\ totalSize < Len(h264Buffer)
    /\ h264Buffer[totalSize + 1] # FillChar

\* C18: an encoder that was created is destroyed exactly once before main()
\* returns, on every path, the failure of InitializeExt included.
C18_CreatedEncoderDestroyed ==
    pc = "done" =>
        /\ encoder \in {"null", "destroyed"}
        /\ encoder = "destroyed" => hist.destroys = 1

====
